---- MODULE Spec2Model ----
(***************************************************************************)
(* Model of the swap-app escrow program (programs/swap-app).  Two          *)
(* instructions, make_offer and take_offer, run as atomic transactions     *)
(* over token accounts, offer accounts and lamport balances.               *)
(***************************************************************************)
EXTENDS Integers, FiniteSets, Sequences, TLC

\* ---------------------------------------------------------------- bounds
MaxId == 2          \* offer ids are 1..MaxId
MaxAmount == 1      \* deposit and wanted amounts are 0..MaxAmount
InitTokens == 1     \* initial balance of every initial token holding
InitLamports == 6   \* initial lamports of every wallet
MaxOps == 3         \* successful instructions per behaviour

Parties == {"alice", "bob", "carol"}
Makers == {"alice", "bob"}      \* the parties that submit make_offer
Mints == {"A", "B"}
Ids == 1..MaxId
Amounts == 0..MaxAmount

\* rent-exempt deposit of an Offer account (space = discriminator + INIT_SPACE)
OfferRent == 2
\* rent-exempt deposit of a token account (vault or associated holding)
TokenRent == 1

VARIABLES
    token,      \* token accounts: address -> [amount, lamports]
    offer,      \* offer accounts: PDA address -> Offer
    lamports,   \* lamports of each wallet
    deposited,  \* history: deposit_amount of the make_offer that created a live offer
    last,       \* history: the last instruction that committed
    nops,       \* history: number of instructions that committed
    settled,    \* history: offers taken and not made again since
    everSettled,\* history: offers taken at some time
    race        \* two take_offer transactions in flight against one offer

vars == <<token, offer, lamports, deposited, last, nops, settled, everSettled, race>>

\* ------------------------------------------------------------- addresses
Wallet(p) == <<"wallet", p>>

\* mutant: the id is left out of the seeds
find_program_address_no_id(maker, id) == <<"offer", maker, 0>>

\* seeds = [b"offer", maker.key(), id.to_le_bytes()]
find_program_address(maker, id) == <<"offer", maker, id>>

\* mutant: the token account of an offer is derived from its maker alone
get_associated_token_address_per_maker(owner, mint) ==
    IF owner[1] = "offer" THEN <<<<"offer", owner[2], 0>>, mint>>
    ELSE <<owner, mint>>

get_associated_token_address(owner, mint) == <<owner, mint>>

OfferAddresses == {find_program_address(p, i) : p \in Makers, i \in Ids}

\* the token accounts a caller may name as the vault of an offer
VaultAddresses(offer_key) ==
    {get_associated_token_address(offer_key, m) : m \in Mints}

\* ------------------------------------------------------- function helpers
Put(f, k, v) == [x \in (DOMAIN f) \cup {k} |-> IF x = k THEN v ELSE f[x]]

Drop(f, k) == [x \in (DOMAIN f) \ {k} |-> f[x]]

\* ---------------------------------------------------------------- Result
Ok(st) == [err |-> "Ok", st |-> st]

Err(e, st) == [err |-> e, st |-> st]

\* the ? operator: continue with F on success, propagate the error otherwise
\* (r is evaluated once and bound to x)
Then(r, F(_)) ==
    CHOOSE out \in {IF x.err = "Ok" THEN F(x.st) ELSE x : x \in {r}} : TRUE

\* the runtime commits the accounts of an instruction that returns Ok; an
\* instruction that returns Err leaves no account changed
ProcessInstruction(st, r) == IF r.err = "Ok" THEN r.st ELSE st

\* the program state an instruction works on
Accounts == [token |-> token, offer |-> offer, lamports |-> lamports]

\* ------------------------------------------------- collaborator programs
\* system program: create an account, the payer funding its rent
create_account(st, payer, rent) ==
    IF st.lamports[payer] < rent
    THEN Err("InsufficientLamports", st)
    ELSE Ok([st EXCEPT !.lamports[payer] = @ - rent])

\* associated token program: create the token account at addr
create_token_account(st, payer, addr) ==
    IF addr \in DOMAIN st.token
    THEN Err("AllocationConflict", st)
    ELSE Then(create_account(st, payer, TokenRent),
              LAMBDA s : Ok([s EXCEPT !.token =
                  Put(@, addr, [amount |-> 0, lamports |-> TokenRent])]))

\* token program transfer_checked
transfer_checked(st, from, to, amount, mint, authority, signed) ==
    IF from \notin DOMAIN st.token \/ to \notin DOMAIN st.token
    THEN Err("AccountNotInitialized", st)
    ELSE IF from[2] # mint \/ to[2] # mint
    THEN Err("MintMismatch", st)
    ELSE IF from[1] # authority \/ ~signed
    THEN Err("Unauthorized", st)
    ELSE IF st.token[from].amount < amount
    THEN Err("InsufficientBalance", st)
    ELSE LET debited == [st.token EXCEPT ![from].amount = @ - amount]
         IN  Ok([st EXCEPT !.token = [debited EXCEPT ![to].amount = @ + amount]])

\* token program close_account: rent goes to the destination wallet
close_account(st, account, destination, authority, signed) ==
    IF account \notin DOMAIN st.token
    THEN Err("AccountNotInitialized", st)
    ELSE IF account[1] # authority \/ ~signed
    THEN Err("Unauthorized", st)
    ELSE IF st.token[account].amount # 0
    THEN Err("NonEmptyAccount", st)
    ELSE Ok([st EXCEPT !.lamports[destination] = @ + st.token[account].lamports,
                       !.token = Drop(@, account)])

\* ------------------------------------------------------------- shared.rs
\* mutant: the transfer is authorised as the owner of the source account,
\* whoever signs
transfer_tokens_as_owner(st, from, to, amount, mint, authority) ==
    transfer_checked(st, from, to, amount, mint, from[1], TRUE)

\* mutant: the amount is debited from the source and credited nowhere
transfer_tokens_uncredited(st, from, to, amount, mint, authority) ==
    LET r == transfer_checked(st, from, to, amount, mint, Wallet(authority), TRUE)
    IN  IF r.err = "Ok"
        THEN Ok([st EXCEPT !.token[from].amount = @ - amount])
        ELSE r

\* transfer_tokens: a checked transfer authorised by a signing wallet
transfer_tokens(st, from, to, amount, mint, authority) ==
    transfer_checked(st, from, to, amount, mint, Wallet(authority), TRUE)

\* -------------------------------------------------------- make_offer.rs
\* an Offer account as `init` leaves it: allocated, fields zeroed
ZeroedOffer ==
    [id |-> 0, maker |-> "default", token_mint_a |-> "default",
     token_mint_b |-> "default", token_b_wanted_amount |-> 0,
     lamports |-> OfferRent]

\* mutant: the offer and the vault are initialised only if needed, so an
\* offer that exists is taken over instead of being refused
MakeOffer_init_if_needed(st, maker, id, token_mint_a, token_mint_b) ==
    LET offer_key == find_program_address(maker, id)
        vault == get_associated_token_address(offer_key, token_mint_a)
    IN  IF get_associated_token_address(Wallet(maker), token_mint_a)
              \notin DOMAIN st.token
        THEN Err("AccountNotInitialized", st)
        ELSE IF offer_key \in DOMAIN st.offer
        THEN IF vault \in DOMAIN st.token
             THEN Ok(st)
             ELSE create_token_account(st, maker, vault)
        ELSE Then(create_account(st, maker, OfferRent),
                  LAMBDA s : create_token_account(
                      [s EXCEPT !.offer = Put(@, offer_key, ZeroedOffer)],
                      maker, vault))

\* #[derive(Accounts)] MakeOffer: load and initialise the accounts
MakeOffer(st, maker, id, token_mint_a, token_mint_b) ==
    LET maker_token_account_a ==
            get_associated_token_address(Wallet(maker), token_mint_a)
        offer_key == find_program_address(maker, id)
        vault == get_associated_token_address(offer_key, token_mint_a)
    IN  IF maker_token_account_a \notin DOMAIN st.token
        THEN Err("AccountNotInitialized", st)
        ELSE IF offer_key \in DOMAIN st.offer
        THEN Err("AllocationConflict", st)
        ELSE Then(create_account(st, maker, OfferRent),
                  LAMBDA s : create_token_account(
                      [s EXCEPT !.offer = Put(@, offer_key, ZeroedOffer)],
                      maker, vault))

\* mutant: a deposit of zero is refused
send_offered_tokens_to_vault_nonzero(st, maker, id, token_mint_a, token_a_offered_amount) ==
    IF token_a_offered_amount = 0
    THEN Err("InvalidAmount", st)
    ELSE transfer_tokens(st,
             get_associated_token_address(Wallet(maker), token_mint_a),
             get_associated_token_address(find_program_address(maker, id),
                                          token_mint_a),
             token_a_offered_amount, token_mint_a, maker)

send_offered_tokens_to_vault(st, maker, id, token_mint_a, token_a_offered_amount) ==
    LET offer_key == find_program_address(maker, id)
    IN  transfer_tokens(st,
            get_associated_token_address(Wallet(maker), token_mint_a),
            get_associated_token_address(offer_key, token_mint_a),
            token_a_offered_amount, token_mint_a, maker)

\* save_offer writes the Offer fields
save_offer(st, maker, id, token_mint_a, token_mint_b, token_b_wanted_amount) ==
    Ok([st EXCEPT !.offer[find_program_address(maker, id)] =
        [id |-> id, maker |-> maker, token_mint_a |-> token_mint_a,
         token_mint_b |-> token_mint_b,
         token_b_wanted_amount |-> token_b_wanted_amount,
         lamports |-> @.lamports]])

\* mutant: the result of the deposit is dropped instead of propagated with ?
make_offer_unchecked(st, maker, id, token_mint_a, token_mint_b, token_a_offered_amount, token_b_wanted_amount) ==
    Then(MakeOffer(st, maker, id, token_mint_a, token_mint_b),
         LAMBDA s1 :
    save_offer(ProcessInstruction(s1,
                   send_offered_tokens_to_vault(s1, maker, id, token_mint_a,
                                                token_a_offered_amount)),
               maker, id, token_mint_a, token_mint_b, token_b_wanted_amount))

\* mutant: the offer is saved without the deposit being sent to the vault
make_offer_unfunded(st, maker, id, token_mint_a, token_mint_b, token_a_offered_amount, token_b_wanted_amount) ==
    Then(MakeOffer(st, maker, id, token_mint_a, token_mint_b),
         LAMBDA s1 :
    save_offer(s1, maker, id, token_mint_a, token_mint_b, token_b_wanted_amount))

\* lib.rs make_offer
make_offer(st, maker, id, token_mint_a, token_mint_b, token_a_offered_amount, token_b_wanted_amount) ==
    Then(MakeOffer(st, maker, id, token_mint_a, token_mint_b),
         LAMBDA s1 :
    Then(send_offered_tokens_to_vault(s1, maker, id, token_mint_a,
                                      token_a_offered_amount),
         LAMBDA s2 :
    save_offer(s2, maker, id, token_mint_a, token_mint_b, token_b_wanted_amount)))

\* -------------------------------------------------------- take_offer.rs
\* init_if_needed on an associated token account
init_if_needed(st, payer, addr) ==
    IF addr \in DOMAIN st.token THEN Ok(st) ELSE create_token_account(st, payer, addr)

\* mutant: has_one = token_mint_b is missing
TakeOfferConstraints_no_mint_b(st, maker, token_mint_a, token_mint_b, offer_key, vault) ==
    LET o == st.offer[offer_key]
    IN  IF o.maker # maker \/ o.token_mint_a # token_mint_a
        THEN Err("ConstraintHasOne", st)
        ELSE IF find_program_address(maker, o.id) # offer_key
        THEN Err("ConstraintSeeds", st)
        ELSE IF vault # get_associated_token_address(offer_key, token_mint_a)
        THEN Err("ConstraintAssociated", st)
        ELSE Ok(st)

\* the constraints on the offer and vault accounts
TakeOfferConstraints(st, maker, token_mint_a, token_mint_b, offer_key, vault) ==
    LET o == st.offer[offer_key]
    IN  IF o.maker # maker \/ o.token_mint_a # token_mint_a
           \/ o.token_mint_b # token_mint_b
        THEN Err("ConstraintHasOne", st)
        ELSE IF find_program_address(maker, o.id) # offer_key
        THEN Err("ConstraintSeeds", st)
        ELSE IF vault # get_associated_token_address(offer_key, token_mint_a)
        THEN Err("ConstraintAssociated", st)
        ELSE Ok(st)

\* #[derive(Accounts)] TakeOffer, the holdings: taker_token_account_a
\* (init_if_needed), taker_token_account_b (mut), maker_token_account_b
\* (init_if_needed), loaded in the order of the struct
TakeOfferHoldings(st, taker, maker, token_mint_a, token_mint_b) ==
    Then(init_if_needed(st, taker,
             get_associated_token_address(Wallet(taker), token_mint_a)),
         LAMBDA s1 :
    IF get_associated_token_address(Wallet(taker), token_mint_b) \notin DOMAIN s1.token
    THEN Err("AccountNotInitialized", s1)
    ELSE init_if_needed(s1, taker,
             get_associated_token_address(Wallet(maker), token_mint_b)))

\* mutant: a taker that is the maker is refused
TakeOffer_no_self_trade(st, taker, maker, token_mint_a, token_mint_b, offer_key, vault) ==
    IF taker = maker
    THEN Err("ConstraintRaw", st)
    ELSE Then(TakeOfferHoldings(st, taker, maker, token_mint_a, token_mint_b),
              LAMBDA s2 :
         IF offer_key \notin DOMAIN s2.offer
         THEN Err("NotFound", s2)
         ELSE IF vault \notin DOMAIN s2.token
         THEN Err("AccountNotInitialized", s2)
         ELSE TakeOfferConstraints(s2, maker, token_mint_a, token_mint_b,
                                   offer_key, vault))

\* #[derive(Accounts)] TakeOffer: load, initialise and check the accounts
TakeOffer(st, taker, maker, token_mint_a, token_mint_b, offer_key, vault) ==
    Then(TakeOfferHoldings(st, taker, maker, token_mint_a, token_mint_b),
         LAMBDA s2 :
    IF offer_key \notin DOMAIN s2.offer
    THEN Err("NotFound", s2)
    ELSE IF vault \notin DOMAIN s2.token
    THEN Err("AccountNotInitialized", s2)
    ELSE TakeOfferConstraints(s2, maker, token_mint_a, token_mint_b,
                              offer_key, vault))

\* mutant: the payment is sent to the taker's own holding
send_wanted_tokens_to_taker(st, taker, maker, token_mint_b, offer_key) ==
    transfer_tokens(st,
        get_associated_token_address(Wallet(taker), token_mint_b),
        get_associated_token_address(Wallet(taker), token_mint_b),
        st.offer[offer_key].token_b_wanted_amount, token_mint_b, taker)

send_wanted_tokens_to_maker(st, taker, maker, token_mint_b, offer_key) ==
    transfer_tokens(st,
        get_associated_token_address(Wallet(taker), token_mint_b),
        get_associated_token_address(Wallet(maker), token_mint_b),
        st.offer[offer_key].token_b_wanted_amount, token_mint_b, taker)

\* mutant: the vault is emptied but not closed
withdraw_and_keep_vault(st, loaded, taker, maker, token_mint_a, offer_key, vault) ==
    LET signer == find_program_address(maker, st.offer[offer_key].id)
    IN  transfer_checked(st, vault,
            get_associated_token_address(Wallet(taker), token_mint_a),
            loaded.token[vault].amount, token_mint_a, offer_key,
            signer = offer_key)

\* mutant: the rent of the closed vault is sent to the maker
withdraw_and_close_vault_to_maker(st, loaded, taker, maker, token_mint_a, offer_key, vault) ==
    LET signed == (find_program_address(maker, st.offer[offer_key].id) = offer_key)
    IN  Then(transfer_checked(st, vault,
                 get_associated_token_address(Wallet(taker), token_mint_a),
                 loaded.token[vault].amount, token_mint_a, offer_key, signed),
             LAMBDA s : close_account(s, vault, maker, offer_key, signed))

\* mutant: the vault transfer and close are not signed with the offer's seeds
withdraw_and_close_vault_unsigned(st, loaded, taker, maker, token_mint_a, offer_key, vault) ==
    Then(transfer_checked(st, vault,
             get_associated_token_address(Wallet(taker), token_mint_a),
             loaded.token[vault].amount, token_mint_a, offer_key, FALSE),
         LAMBDA s : close_account(s, vault, taker, offer_key, FALSE))

\* loaded is the state in which the accounts were deserialised:
\* ctx.accounts.vault.amount is the amount read then
withdraw_and_close_vault(st, loaded, taker, maker, token_mint_a, offer_key, vault) ==
    LET signer == find_program_address(maker, st.offer[offer_key].id)
        signed == (signer = offer_key)
    IN  Then(transfer_checked(st, vault,
                 get_associated_token_address(Wallet(taker), token_mint_a),
                 loaded.token[vault].amount, token_mint_a, offer_key, signed),
             LAMBDA s : close_account(s, vault, taker, offer_key, signed))

\* mutant: the offer account is left open when the instruction exits
close_offer_kept(st, maker, offer_key) == Ok(st)

\* close = maker: on exit the offer account is closed, its rent sent to maker
close_offer(st, maker, offer_key) ==
    Ok([st EXCEPT !.lamports[maker] = @ + st.offer[offer_key].lamports,
                  !.offer = Drop(@, offer_key)])

\* mutant: the vault is emptied to the taker before the taker pays
take_offer_withdraw_first(st, taker, maker, token_mint_a, token_mint_b, offer_key, vault) ==
    Then(TakeOffer(st, taker, maker, token_mint_a, token_mint_b, offer_key, vault),
         LAMBDA loaded :
    Then(withdraw_and_close_vault(loaded, loaded, taker, maker, token_mint_a,
                                  offer_key, vault),
         LAMBDA s1 :
    Then(send_wanted_tokens_to_maker(s1, taker, maker, token_mint_b, offer_key),
         LAMBDA s2 : close_offer(s2, maker, offer_key))))

\* mutant: the vault is emptied but neither it nor the offer is closed
take_offer_left_open(st, taker, maker, token_mint_a, token_mint_b, offer_key, vault) ==
    Then(TakeOffer(st, taker, maker, token_mint_a, token_mint_b, offer_key, vault),
         LAMBDA loaded :
    Then(send_wanted_tokens_to_maker(loaded, taker, maker, token_mint_b, offer_key),
         LAMBDA s1 :
    withdraw_and_keep_vault(s1, loaded, taker, maker, token_mint_a,
                            offer_key, vault)))

\* lib.rs take_offer
take_offer(st, taker, maker, token_mint_a, token_mint_b, offer_key, vault) ==
    Then(TakeOffer(st, taker, maker, token_mint_a, token_mint_b, offer_key, vault),
         LAMBDA loaded :
    Then(send_wanted_tokens_to_maker(loaded, taker, maker, token_mint_b, offer_key),
         LAMBDA s1 :
    Then(withdraw_and_close_vault(s1, loaded, taker, maker, token_mint_a,
                                  offer_key, vault),
         LAMBDA s2 : close_offer(s2, maker, offer_key))))

\* --------------------------------------------------------------- history
NoInstruction ==
    [op |-> "none", key |-> <<>>, signer |-> "-", maker |-> "-",
     token_mint_a |-> "-", token_mint_b |-> "-", amount |-> 0, wanted |-> 0]

NoRace ==
    [phase |-> "none", key |-> <<>>, maker |-> "-", token_mint_a |-> "-",
     token_mint_b |-> "-", takers |-> <<>>, errs |-> <<>>, order |-> <<>>,
     pre |-> <<>>]

\* ------------------------------------------------------------------ Init
InitHoldings ==
    {<<"alice", "A">>, <<"bob", "B">>, <<"carol", "A">>, <<"carol", "B">>}

EmptyHoldings == {<<"carol", "B">>}

Init ==
    /\ token = [a \in {get_associated_token_address(Wallet(h[1]), h[2]) :
                         h \in InitHoldings} |->
                  [amount |-> IF <<a[1][2], a[2]>> \in EmptyHoldings
                              THEN 0 ELSE InitTokens,
                   lamports |-> TokenRent]]
    /\ offer = [k \in {} |-> ZeroedOffer]
    /\ lamports = [p \in Parties |-> InitLamports]
    /\ deposited = [k \in {} |-> 0]
    /\ last = NoInstruction
    /\ nops = 0
    /\ settled = {}
    /\ everSettled = {}
    /\ race = NoRace

\* --------------------------------------------------------------- actions
\* the accounts after a committed instruction
Committed(r) ==
    LET st == ProcessInstruction(Accounts, r)
    IN  /\ token' = st.token
        /\ offer' = st.offer
        /\ lamports' = st.lamports

\* the history after a committed make_offer
MadeHistory(maker, id, token_mint_a, token_mint_b, amount, wanted) ==
    LET key == find_program_address(maker, id)
    IN  /\ deposited' = Put(deposited, key, amount)
        /\ last' = [op |-> "make", key |-> key, signer |-> maker,
                    maker |-> maker, token_mint_a |-> token_mint_a,
                    token_mint_b |-> token_mint_b, amount |-> amount,
                    wanted |-> wanted]
        /\ nops' = nops + 1
        /\ settled' = settled \ {key}
        /\ UNCHANGED everSettled

\* the history after a committed take_offer
TakenHistory(taker, maker, token_mint_a, token_mint_b, offer_key) ==
    /\ deposited' = Drop(deposited, offer_key)
    /\ last' = [op |-> "take", key |-> offer_key, signer |-> taker,
                maker |-> maker, token_mint_a |-> token_mint_a,
                token_mint_b |-> token_mint_b,
                amount |-> IF offer_key \in DOMAIN deposited
                           THEN deposited[offer_key] ELSE 0,
                wanted |-> offer[offer_key].token_b_wanted_amount]
    /\ nops' = nops + 1
    /\ settled' = settled \cup {offer_key}
    /\ everSettled' = everSettled \cup {offer_key}

\* one make_offer transaction signed by maker; a transaction that fails
\* commits nothing
MakeOfferTx(maker, id, token_mint_a, token_mint_b, token_a_offered_amount, token_b_wanted_amount) ==
    /\ race.phase = "none"
    /\ nops < MaxOps
    /\ \E r \in {make_offer(Accounts, maker, id, token_mint_a, token_mint_b,
                            token_a_offered_amount, token_b_wanted_amount)} :
          /\ r.err = "Ok"
          /\ Committed(r)
    /\ MadeHistory(maker, id, token_mint_a, token_mint_b,
                   token_a_offered_amount, token_b_wanted_amount)
    /\ UNCHANGED race

\* one take_offer transaction signed by taker, naming the accounts it acts on
TakeOfferTx(taker, maker, token_mint_a, token_mint_b, offer_key, vault) ==
    /\ race.phase = "none"
    /\ nops < MaxOps
    /\ \E r \in {take_offer(Accounts, taker, maker, token_mint_a, token_mint_b,
                            offer_key, vault)} :
          /\ r.err = "Ok"
          /\ Committed(r)
    /\ TakenHistory(taker, maker, token_mint_a, token_mint_b, offer_key)
    /\ UNCHANGED race

\* two takers submit take_offer against the same live offer, each naming
\* the accounts the offer records
IssueRace(offer_key, taker1, taker2) ==
    /\ race.phase = "none"
    /\ nops + 2 <= MaxOps
    /\ offer_key \in DOMAIN offer
    /\ race' = [phase |-> "issued", key |-> offer_key,
                maker |-> offer[offer_key].maker,
                token_mint_a |-> offer[offer_key].token_mint_a,
                token_mint_b |-> offer[offer_key].token_mint_b,
                takers |-> <<taker1, taker2>>,
                errs |-> <<"pending", "pending">>, order |-> <<>>,
                pre |-> Accounts]
    /\ UNCHANGED <<token, offer, lamports, deposited, last, nops, settled,
                   everSettled>>

\* the accounts named by the i-th of the two transactions in flight
RaceInput(i) ==
    [taker |-> race.takers[i], maker |-> race.maker,
     token_mint_a |-> race.token_mint_a, token_mint_b |-> race.token_mint_b,
     offer_key |-> race.key,
     vault |-> get_associated_token_address(race.key, race.token_mint_a)]

\* the runtime runs one of the two transactions in flight
CommitRace(i) ==
    /\ race.phase = "issued"
    /\ race.errs[i] = "pending"
    /\ \E r \in {take_offer(Accounts, RaceInput(i).taker, RaceInput(i).maker,
                            RaceInput(i).token_mint_a, RaceInput(i).token_mint_b,
                            RaceInput(i).offer_key, RaceInput(i).vault)} :
          /\ Committed(r)
          /\ race' = [race EXCEPT !.errs[i] = r.err,
                                  !.order = Append(@, i)]
          /\ IF r.err = "Ok"
             THEN TakenHistory(race.takers[i], race.maker, race.token_mint_a,
                               race.token_mint_b, race.key)
             ELSE UNCHANGED <<deposited, last, nops, settled, everSettled>>

\* both transactions have run
RaceOver ==
    /\ race.phase = "issued"
    /\ Len(race.order) = 2
    /\ race' = NoRace
    /\ UNCHANGED <<token, offer, lamports, deposited, last, nops, settled,
                   everSettled>>

Next ==
    \/ \E maker \in Makers, id \in Ids, a \in Mints, b \in Mints,
          amount \in Amounts, wanted \in Amounts :
          MakeOfferTx(maker, id, a, b, amount, wanted)
    \/ \E taker \in Parties, maker \in Parties, a \in Mints, b \in Mints,
          k \in OfferAddresses :
          \E v \in VaultAddresses(k) : TakeOfferTx(taker, maker, a, b, k, v)
    \/ \E k \in OfferAddresses, t1 \in Parties, t2 \in Parties :
          IssueRace(k, t1, t2)
    \/ \E i \in 1..2 : CommitRace(i)
    \/ RaceOver

Spec == Init /\ [][Next]_vars

\* ------------------------------------------------------------ observers
\* get(maker, id) of the Offer Ledger
Found(maker, id) == find_program_address(maker, id) \in DOMAIN offer

\* the balance of a party's holding of a mint in the token accounts t
Balance(t, p, m) ==
    IF get_associated_token_address(Wallet(p), m) \in DOMAIN t
    THEN t[get_associated_token_address(Wallet(p), m)].amount
    ELSE 0

\* the arguments and accounts of a make_offer instruction
MakeOfferInputs ==
    [maker : Makers, id : Ids, token_mint_a : Mints, token_mint_b : Mints,
     token_a_offered_amount : Amounts, token_b_wanted_amount : Amounts]

\* the result of make_offer with the inputs q, run on the accounts st
MakeOfferResult(st, q) ==
    make_offer(st, q.maker, q.id, q.token_mint_a, q.token_mint_b,
               q.token_a_offered_amount, q.token_b_wanted_amount)

\* the accounts of a take_offer instruction
TakeOfferInputs ==
    {q \in [taker : Parties, maker : Parties, token_mint_a : Mints,
            token_mint_b : Mints, offer_key : OfferAddresses,
            vault : UNION {VaultAddresses(k) : k \in OfferAddresses}] :
        q.vault \in VaultAddresses(q.offer_key)}

\* the result of take_offer with the inputs q, run on the accounts st
TakeOfferResult(st, q) ==
    take_offer(st, q.taker, q.maker, q.token_mint_a, q.token_mint_b,
               q.offer_key, q.vault)

\* the balances of the vaults (custodians) in the token accounts t
VaultBalances(t) ==
    [v \in {a \in DOMAIN t : a[1] \in OfferAddresses} |-> t[v].amount]

\* the holdings that take_offer names load: the taker's asset_b holding
\* exists and the taker can fund the holdings that are initialised if needed
HoldingsLoad(st, q) ==
    TakeOfferHoldings(st, q.taker, q.maker, q.token_mint_a,
                      q.token_mint_b).err = "Ok"

\* the accounts that take_offer names pass validation
AccountsValid(st, q) ==
    TakeOffer(st, q.taker, q.maker, q.token_mint_a, q.token_mint_b,
              q.offer_key, q.vault).err = "Ok"

\* the taker of q holds less of q's asset_b than the offer wants
Underfunded(st, q) ==
    /\ q.offer_key \in DOMAIN st.offer
    /\ Balance(st.token, q.taker, q.token_mint_b)
         < st.offer[q.offer_key].token_b_wanted_amount

\* both transactions of the race have run
RaceComplete == race.phase = "issued" /\ Len(race.order) = 2

\* the change of p's balance of m that one settlement of the raced offer by
\* taker makes: + deposit (taker, asset_a), - wanted (taker, asset_b),
\* + wanted (maker, asset_b)
SettlementDelta(taker, p, m) ==
    LET deposit == race.pre.token[RaceInput(1).vault].amount
        wanted == race.pre.offer[race.key].token_b_wanted_amount
    IN  (IF p = taker /\ m = race.token_mint_a THEN deposit ELSE 0)
        - (IF p = taker /\ m = race.token_mint_b THEN wanted ELSE 0)
        + (IF p = race.maker /\ m = race.token_mint_b THEN wanted ELSE 0)

\* q names a live offer with a maker or an asset the Offer does not record
Mismatch(st, q) ==
    /\ q.offer_key \in DOMAIN st.offer
    /\ \/ q.maker # st.offer[q.offer_key].maker
       \/ q.token_mint_a # st.offer[q.offer_key].token_mint_a
       \/ q.token_mint_b # st.offer[q.offer_key].token_mint_b

\* this step commits a take_offer / a make_offer
Took == nops' = nops + 1 /\ last'.op = "take"

Made == nops' = nops + 1 /\ last'.op = "make"

\* ------------------------------------------------------------------- C1
\* C1 as stated: after every successful take_offer the taker's asset_a
\* balance has grown by exactly the deposit, the maker's asset_b balance by
\* exactly wanted_amount, and get(maker, id) returns NotFound.
C1_Original ==
    [][Took =>
        /\ Balance(token', last'.signer, last'.token_mint_a)
             = Balance(token, last'.signer, last'.token_mint_a) + last'.amount
        /\ Balance(token', last'.maker, last'.token_mint_b)
             = Balance(token, last'.maker, last'.token_mint_b) + last'.wanted
        /\ last'.key \notin DOMAIN offer']_vars

\* C1 amended: the same, for a taker that is not the maker and an offer whose
\* two assets differ; in every case the offer is gone and each holding
\* changes by exactly: + deposit (taker, asset_a), - wanted (taker, asset_b),
\* + wanted (maker, asset_b).
C1_SettlementExchange ==
    [][Took =>
        /\ last'.key \notin DOMAIN offer'
        /\ (last'.signer # last'.maker /\ last'.token_mint_a # last'.token_mint_b)
             => /\ Balance(token', last'.signer, last'.token_mint_a)
                     = Balance(token, last'.signer, last'.token_mint_a)
                       + last'.amount
                /\ Balance(token', last'.maker, last'.token_mint_b)
                     = Balance(token, last'.maker, last'.token_mint_b)
                       + last'.wanted
        /\ \A p \in Parties, m \in Mints :
              Balance(token', p, m) - Balance(token, p, m)
                = (IF p = last'.signer /\ m = last'.token_mint_a
                   THEN last'.amount ELSE 0)
                  - (IF p = last'.signer /\ m = last'.token_mint_b
                     THEN last'.wanted ELSE 0)
                  + (IF p = last'.maker /\ m = last'.token_mint_b
                     THEN last'.wanted ELSE 0)]_vars

\* a take_offer by a third party has exchanged a non-zero deposit for a
\* non-zero payment in another asset
C1_Witness ==
    /\ last.op = "take"
    /\ last.signer # last.maker
    /\ last.token_mint_a # last.token_mint_b
    /\ last.amount > 0
    /\ last.wanted > 0
    /\ last.key \notin DOMAIN offer
    /\ Balance(token, last.maker, last.token_mint_b) >= last.wanted

\* ------------------------------------------------------------------- C2
\* C2: in every reachable state, for every (maker, id), the offer exists iff
\* its vault exists and holds exactly the amount deposited by make_offer;
\* an offer that does not exist has no vault at all.
C2_ExistenceInvariant ==
    \A k \in OfferAddresses :
        IF k \in DOMAIN offer
        THEN /\ k \in DOMAIN deposited
             /\ get_associated_token_address(k, offer[k].token_mint_a)
                  \in DOMAIN token
             /\ token[get_associated_token_address(k, offer[k].token_mint_a)].amount
                  = deposited[k]
             /\ \A m \in Mints \ {offer[k].token_mint_a} :
                  get_associated_token_address(k, m) \notin DOMAIN token
        ELSE \A m \in Mints :
                  get_associated_token_address(k, m) \notin DOMAIN token

\* one offer is live with a funded vault while another has been taken
C2_Witness ==
    /\ \E k \in DOMAIN offer : deposited[k] > 0
    /\ \E k \in settled : k \notin DOMAIN offer

\* ------------------------------------------------------------------- C3
\* C3 as stated: a successful make_offer leaves the vault holding
\* deposit_amount and get(maker, id) returning the new Offer; after a failed
\* make_offer get(maker, id) returns NotFound and no vault balance changed.
C3_Original ==
    \A q \in MakeOfferInputs :
        LET r == MakeOfferResult(Accounts, q)
            post == ProcessInstruction(Accounts, r)
            key == find_program_address(q.maker, q.id)
            vault == get_associated_token_address(key, q.token_mint_a)
        IN  IF r.err = "Ok"
            THEN /\ key \in DOMAIN post.offer
                 /\ vault \in DOMAIN post.token
                 /\ post.token[vault].amount = q.token_a_offered_amount
            ELSE /\ key \notin DOMAIN post.offer
                 /\ VaultBalances(post.token) = VaultBalances(token)

\* C3 amended: a successful make_offer leaves the vault holding
\* deposit_amount and get(maker, id) returning an Offer with the given
\* fields; after a failed make_offer get(maker, id) returns what it returned
\* before the call (the live Offer when the call was a duplicate, NotFound
\* otherwise) and no vault balance changed.
C3_CreateAtomicity ==
    \A q \in MakeOfferInputs :
        LET r == MakeOfferResult(Accounts, q)
            post == ProcessInstruction(Accounts, r)
            key == find_program_address(q.maker, q.id)
            vault == get_associated_token_address(key, q.token_mint_a)
        IN  IF r.err = "Ok"
            THEN /\ key \notin DOMAIN offer
                 /\ key \in DOMAIN post.offer
                 /\ post.offer[key].id = q.id
                 /\ post.offer[key].maker = q.maker
                 /\ post.offer[key].token_mint_a = q.token_mint_a
                 /\ post.offer[key].token_mint_b = q.token_mint_b
                 /\ post.offer[key].token_b_wanted_amount
                      = q.token_b_wanted_amount
                 /\ vault \in DOMAIN post.token
                 /\ post.token[vault].amount = q.token_a_offered_amount
                 /\ Balance(post.token, q.maker, q.token_mint_a)
                      = Balance(token, q.maker, q.token_mint_a)
                        - q.token_a_offered_amount
            ELSE /\ (key \in DOMAIN post.offer) = (key \in DOMAIN offer)
                 /\ key \in DOMAIN offer => post.offer[key] = offer[key]
                 /\ VaultBalances(post.token) = VaultBalances(token)

\* a make_offer has just funded a vault with a non-zero deposit, and in this
\* state one make_offer fails as a duplicate, one fails after its accounts
\* were initialised (the maker lacks the deposit), and one succeeds
C3_Witness ==
    /\ last.op = "make"
    /\ last.amount > 0
    /\ last.key \in DOMAIN offer
    /\ VaultBalances(token)[get_associated_token_address(last.key,
                                last.token_mint_a)] = last.amount
    /\ \E q \in MakeOfferInputs :
          /\ find_program_address(q.maker, q.id) \in DOMAIN offer
          /\ MakeOfferResult(Accounts, q).err # "Ok"
    /\ \E q \in MakeOfferInputs :
          /\ MakeOfferResult(Accounts, q).err = "InsufficientBalance"
          /\ MakeOfferResult(Accounts, q).st # Accounts
    /\ \E q \in MakeOfferInputs : MakeOfferResult(Accounts, q).err = "Ok"

\* ------------------------------------------------------------------- C4
\* C4 as stated: once a take_offer on (maker, id) has succeeded, every later
\* take_offer on the same (maker, id), by a taker whose holdings load, fails
\* with NotFound and changes no balance.
C4_Original ==
    \A q \in TakeOfferInputs :
        (q.offer_key \in everSettled /\ HoldingsLoad(Accounts, q))
        => LET r == TakeOfferResult(Accounts, q)
           IN  /\ r.err = "NotFound"
               /\ ProcessInstruction(Accounts, r).token = token

\* C4 amended: once a take_offer on (maker, id) has succeeded and until a
\* make_offer creates (maker, id) again, every take_offer on (maker, id)
\* fails and changes nothing; it fails with NotFound whenever the holdings
\* it names load.
C4_NoDoubleSettle ==
    \A q \in TakeOfferInputs :
        q.offer_key \in settled
        => LET r == TakeOfferResult(Accounts, q)
           IN  /\ r.err # "Ok"
               /\ HoldingsLoad(Accounts, q) => r.err = "NotFound"
               /\ ProcessInstruction(Accounts, r) = Accounts

\* an offer has just been taken, and a second take_offer on it, by a taker
\* whose holdings load, is refused with NotFound, while a second take_offer
\* by a taker whose holdings do not load is refused before the offer is
\* looked up
C4_Witness ==
    /\ last.op = "take"
    /\ last.key \in settled
    /\ \E q \in TakeOfferInputs :
          /\ q.offer_key = last.key
          /\ q.maker = last.maker
          /\ HoldingsLoad(Accounts, q)
          /\ TakeOfferResult(Accounts, q).err = "NotFound"
    /\ \E q \in TakeOfferInputs :
          /\ q.offer_key = last.key
          /\ ~HoldingsLoad(Accounts, q)

\* ------------------------------------------------------------------- C5
\* C5: a take_offer on a live offer whose taker holds less asset_b than the
\* offer's wanted amount fails, with InsufficientBalance when the accounts it
\* names pass validation, and leaves everything unchanged: the Offer is the
\* same, the vault balance is the same and the taker has received no
\* asset_a.
C5_UnderfundedTaker ==
    \A q \in TakeOfferInputs :
        Underfunded(Accounts, q)
        => LET r == TakeOfferResult(Accounts, q)
               post == ProcessInstruction(Accounts, r)
           IN  /\ r.err # "Ok"
               /\ AccountsValid(Accounts, q) => r.err = "InsufficientBalance"
               /\ post.offer = offer
               /\ VaultBalances(post.token) = VaultBalances(token)
               /\ Balance(post.token, q.taker, q.token_mint_a)
                    = Balance(token, q.taker, q.token_mint_a)
               /\ post = Accounts

\* a live offer holds a non-zero deposit, and a taker that names the right
\* accounts but holds less asset_b than wanted is refused
C5_Witness ==
    \E q \in TakeOfferInputs :
        /\ Underfunded(Accounts, q)
        /\ AccountsValid(Accounts, q)
        /\ q.taker # q.maker
        /\ q.token_mint_a # q.token_mint_b
        /\ deposited[q.offer_key] > 0
        /\ TakeOfferResult(Accounts, q).err = "InsufficientBalance"

\* ------------------------------------------------------------------- C6
\* C6: a make_offer for a (maker, id) whose offer is live fails, with
\* AllocationConflict when the maker's holding of the asset it names
\* exists, and the existing Offer stays intact: its fields, its vault
\* balance and the maker's asset_a balance are unchanged.
C6_DuplicateCreate ==
    \A q \in MakeOfferInputs :
        LET key == find_program_address(q.maker, q.id)
            r == MakeOfferResult(Accounts, q)
            post == ProcessInstruction(Accounts, r)
        IN  key \in DOMAIN offer
            => /\ r.err # "Ok"
               /\ get_associated_token_address(Wallet(q.maker), q.token_mint_a)
                     \in DOMAIN token => r.err = "AllocationConflict"
               /\ post.offer[key] = offer[key]
               /\ VaultBalances(post.token) = VaultBalances(token)
               /\ \A m \in Mints :
                     Balance(post.token, q.maker, m) = Balance(token, q.maker, m)
               /\ post = Accounts

\* the make_offer that has just committed, with a non-zero deposit, is
\* submitted again for the same (maker, id) and assets, with a deposit and
\* rent the maker can fund, and is refused with AllocationConflict
C6_Witness ==
    /\ last.op = "make"
    /\ last.amount > 0
    /\ \E q \in MakeOfferInputs :
          /\ find_program_address(q.maker, q.id) = last.key
          /\ q.token_mint_a = last.token_mint_a
          /\ q.token_mint_b = last.token_mint_b
          /\ q.token_a_offered_amount = 0
          /\ q.token_b_wanted_amount = last.wanted
          /\ lamports[q.maker] >= OfferRent + TokenRent
          /\ MakeOfferResult(Accounts, q).err = "AllocationConflict"

\* ------------------------------------------------------------------- C7
\* C7 as stated, for two take_offer transactions whose holdings load: when
\* both have run, at most one has succeeded and, if one has, the other has
\* failed with NotFound.
C7_Original ==
    (RaceComplete /\ \A i \in 1..2 : HoldingsLoad(race.pre, RaceInput(i)))
    => /\ ~(race.errs[1] = "Ok" /\ race.errs[2] = "Ok")
       /\ \A i \in 1..2 :
             race.errs[i] = "Ok" => race.errs[3 - i] = "NotFound"

\* C7 amended: when two take_offer transactions against the same live offer
\* have both run, with nothing else committing in between, at most one has
\* succeeded.  If the first to run succeeded, the second failed, with
\* NotFound whenever its holdings load; if the first to run failed (for
\* instance with InsufficientBalance) it changed nothing and the second ran
\* as if alone.  With a winner, every balance has changed by exactly one
\* settlement (the deposit delivered to the winner only, the maker paid
\* wanted_amount once) and the offer and its vault are gone; with no winner,
\* nothing has changed.
C7_RacingSettles ==
    RaceComplete
    => LET first == race.order[1]
           second == race.order[2]
       IN  /\ ~(race.errs[1] = "Ok" /\ race.errs[2] = "Ok")
           /\ race.errs[first] = "Ok"
                => /\ race.errs[second] # "Ok"
                   /\ HoldingsLoad(Accounts, RaceInput(second))
                        => race.errs[second] = "NotFound"
           /\ race.errs[first] # "Ok"
                => race.errs[second]
                     = TakeOfferResult(race.pre, RaceInput(second)).err
           /\ \A i \in 1..2 :
                 race.errs[i] = "Ok"
                 => /\ race.key \notin DOMAIN offer
                    /\ RaceInput(i).vault \notin DOMAIN token
                    /\ \A p \in Parties, m \in Mints :
                          Balance(token, p, m) - Balance(race.pre.token, p, m)
                            = SettlementDelta(race.takers[i], p, m)
           /\ (race.errs[1] # "Ok" /\ race.errs[2] # "Ok")
                => Accounts = race.pre

\* two different takers, each able to settle the offer alone, have raced for
\* an offer with a non-zero deposit and a non-zero price: the first to run
\* won and the second was refused with NotFound
C7_Witness ==
    /\ RaceComplete
    /\ race.takers[1] # race.takers[2]
    /\ race.token_mint_a # race.token_mint_b
    /\ \A i \in 1..2 : TakeOfferResult(race.pre, RaceInput(i)).err = "Ok"
    /\ race.pre.token[RaceInput(1).vault].amount > 0
    /\ race.pre.offer[race.key].token_b_wanted_amount > 0
    /\ race.errs[race.order[1]] = "Ok"
    /\ race.errs[race.order[2]] = "NotFound"
    /\ race.order = <<2, 1>>

\* ------------------------------------------------------------------- C8
\* C8: every make_offer or take_offer that ends in an error leaves the whole
\* state unchanged (token balances, offers and their fields, lamports),
\* also when accounts were initialised or tokens moved before the failing
\* step; and the failure of any step is the error of the instruction: an
\* instruction never reports Ok past a failed step.
C8_FailureAtomicity ==
    /\ \A q \in MakeOfferInputs :
          LET r == MakeOfferResult(Accounts, q)
              loaded == MakeOffer(Accounts, q.maker, q.id, q.token_mint_a,
                                  q.token_mint_b)
              sent == send_offered_tokens_to_vault(loaded.st, q.maker, q.id,
                          q.token_mint_a, q.token_a_offered_amount)
          IN  /\ r.err # "Ok" => ProcessInstruction(Accounts, r) = Accounts
              /\ loaded.err # "Ok" => r.err = loaded.err
              /\ (loaded.err = "Ok" /\ sent.err # "Ok") => r.err = sent.err
    /\ \A q \in TakeOfferInputs :
          LET r == TakeOfferResult(Accounts, q)
              loaded == TakeOffer(Accounts, q.taker, q.maker, q.token_mint_a,
                                  q.token_mint_b, q.offer_key, q.vault)
              paid == send_wanted_tokens_to_maker(loaded.st, q.taker, q.maker,
                          q.token_mint_b, q.offer_key)
          IN  /\ r.err # "Ok" => ProcessInstruction(Accounts, r) = Accounts
              /\ loaded.err # "Ok" => r.err = loaded.err
              /\ (loaded.err = "Ok" /\ paid.err # "Ok") => r.err = paid.err

\* after some instruction has committed, a make_offer fails at the deposit
\* with its offer and vault already initialised, and a take_offer fails at
\* the payment with a holding already initialised: both partial states
\* differ from the accounts and are discarded
C8_Witness ==
    /\ last.op # "none"
    /\ \E q \in MakeOfferInputs :
          /\ MakeOfferResult(Accounts, q).err = "InsufficientBalance"
          /\ MakeOfferResult(Accounts, q).st # Accounts
    /\ \E q \in TakeOfferInputs :
          /\ TakeOfferResult(Accounts, q).err = "InsufficientBalance"
          /\ TakeOfferResult(Accounts, q).st # Accounts

\* ------------------------------------------------------------------- C9
\* C9: a take_offer on a live offer that supplies an asset_a, an asset_b or
\* a maker other than the one the Offer records fails in account
\* validation, before any transfer, and changes nothing; when the holdings
\* and the vault it names exist, the error is the has_one constraint.
C9_AssetValidation ==
    \A q \in TakeOfferInputs :
        Mismatch(Accounts, q)
        => LET r == TakeOfferResult(Accounts, q)
               loaded == TakeOffer(Accounts, q.taker, q.maker, q.token_mint_a,
                                   q.token_mint_b, q.offer_key, q.vault)
           IN  /\ loaded.err # "Ok"
               /\ r.err = loaded.err
               /\ (HoldingsLoad(Accounts, q) /\ q.vault \in DOMAIN token)
                    => r.err = "ConstraintHasOne"
               /\ ProcessInstruction(Accounts, r) = Accounts

\* a live offer with a non-zero deposit is named by a taker that supplies
\* another asset_b, which it could pay in, and by a taker that supplies
\* another maker: both are refused by has_one
C9_Witness ==
    /\ \E q \in TakeOfferInputs :
          /\ Mismatch(Accounts, q)
          /\ deposited[q.offer_key] > 0
          /\ q.maker = offer[q.offer_key].maker
          /\ q.token_mint_a = offer[q.offer_key].token_mint_a
          /\ q.token_mint_b # offer[q.offer_key].token_mint_b
          /\ Balance(token, q.taker, q.token_mint_b)
               >= offer[q.offer_key].token_b_wanted_amount
          /\ offer[q.offer_key].token_b_wanted_amount > 0
          /\ TakeOfferResult(Accounts, q).err = "ConstraintHasOne"
    /\ \E q \in TakeOfferInputs :
          /\ Mismatch(Accounts, q)
          /\ q.maker # offer[q.offer_key].maker
          /\ q.token_mint_a = offer[q.offer_key].token_mint_a
          /\ q.token_mint_b = offer[q.offer_key].token_mint_b
          /\ TakeOfferResult(Accounts, q).err = "ConstraintHasOne"

\* ------------------------------------------------------------------ C10
\* the inputs of the make_offer that the instruction record l describes
MadeInput(l) ==
    [maker |-> l.maker, id |-> l.key[3], token_mint_a |-> l.token_mint_a,
     token_mint_b |-> l.token_mint_b, token_a_offered_amount |-> l.amount,
     token_b_wanted_amount |-> l.wanted]

\* the accounts after the runtime has run make_offer with q on st
AfterMake(st, q) == ProcessInstruction(st, MakeOfferResult(st, q))

\* q1 and q2 do not compete for funds in st: their makers differ, or the
\* maker's lamports cover both allocations and, when both draw on the same
\* holding, its balance covers both deposits
FundsCoverBoth(st, q1, q2) ==
    \/ q1.maker # q2.maker
    \/ /\ st.lamports[q1.maker] >= 2 * (OfferRent + TokenRent)
       /\ q1.token_mint_a = q2.token_mint_a
            => Balance(st.token, q1.maker, q1.token_mint_a)
                 >= q1.token_a_offered_amount + q2.token_a_offered_amount

\* C10 as stated: when a make_offer commits, every make_offer with another
\* id has the same outcome after it as before it, the committed one would
\* have had the same outcome after that other one, and the two orders end
\* in the same state.
C10_Original ==
    [][Made =>
        \A q2 \in MakeOfferInputs :
            q2.id # MadeInput(last').id
            => LET q1 == MadeInput(last')
               IN  /\ MakeOfferResult(Accounts', q2).err
                        = MakeOfferResult(Accounts, q2).err
                   /\ MakeOfferResult(AfterMake(Accounts, q2), q1).err = "Ok"
                   /\ AfterMake(Accounts', q2)
                        = AfterMake(AfterMake(Accounts, q2), q1)]_vars

\* C10 amended: the same, for two make_offer calls that do not compete for
\* funds (different makers, or one maker whose lamports and asset_a holding
\* cover both); in every case, a make_offer that succeeds after the other
\* one also succeeds before it, and when both succeed the two orders end in
\* the same state.
C10_IndependentCreates ==
    [][Made =>
        \A q2 \in MakeOfferInputs :
            q2.id # MadeInput(last').id
            => LET q1 == MadeInput(last')
                   before == MakeOfferResult(Accounts, q2).err
                   after == MakeOfferResult(Accounts', q2).err
                   other == MakeOfferResult(AfterMake(Accounts, q2), q1).err
               IN  /\ Accounts' = AfterMake(Accounts, q1)
                   /\ FundsCoverBoth(Accounts, q1, q2)
                        => /\ after = before
                           /\ other = "Ok"
                           /\ AfterMake(Accounts', q2)
                                = AfterMake(AfterMake(Accounts, q2), q1)
                   /\ after = "Ok"
                        => /\ before = "Ok"
                           /\ other = "Ok"
                           /\ AfterMake(Accounts', q2)
                                = AfterMake(AfterMake(Accounts, q2), q1)]_vars

\* one maker has two live offers with distinct ids that drew on the same
\* holding, the later one just made, one of them with a non-zero deposit
C10_Witness ==
    /\ last.op = "make"
    /\ \E k \in DOMAIN offer :
          /\ k # last.key
          /\ offer[k].maker = last.maker
          /\ offer[k].id # offer[last.key].id
          /\ offer[k].token_mint_a = last.token_mint_a
          /\ deposited[k] + deposited[last.key] > 0

\* ------------------------------------------------------------------ C11
\* C11 as stated: an offer (maker, id) that a take_offer has settled is never
\* open again.
C11_Original == \A k \in everSettled : k \notin DOMAIN offer

\* C11 amended: an offer is either open, with its vault, or closed, with no
\* vault; a settled (maker, id) stays closed until a make_offer for that
\* (maker, id) commits: take_offer never opens an offer, and an offer opens
\* only in a committed make_offer for its own (maker, id), funded by the
\* deposit of that make_offer.
C11_OfferLifecycle ==
    [][/\ \A k \in settled' :
            /\ k \notin DOMAIN offer'
            /\ \A m \in Mints :
                  get_associated_token_address(k, m) \notin DOMAIN token'
       /\ Took => DOMAIN offer' = DOMAIN offer \ {last'.key}
       /\ \A k \in OfferAddresses :
            (k \notin DOMAIN offer /\ k \in DOMAIN offer')
            => /\ Made
               /\ last'.key = k
               /\ token'[get_associated_token_address(k, last'.token_mint_a)].amount
                    = last'.amount
               /\ Balance(token', last'.maker, last'.token_mint_a)
                    = Balance(token, last'.maker, last'.token_mint_a)
                      - last'.amount]_vars

\* a (maker, id) that was settled has been opened again by a new make_offer
\* with a non-zero deposit
C11_Witness ==
    /\ last.op = "make"
    /\ last.key \in everSettled
    /\ last.key \in DOMAIN offer
    /\ last.key \notin settled
    /\ last.amount > 0

\* ------------------------------------------------------------------ C12
\* the vaults that exist
Vaults == {a \in DOMAIN token : a[1] \in OfferAddresses}

\* a transfer of amount out of the vault v to the token account to, signed
\* by the party p, on the accounts st
RawTransfer(st, v, to, amount, p) ==
    transfer_tokens(st, v, to, amount, v[2], p)

\* C12: in every state a transfer out of a vault that a party (the maker,
\* the taker or anyone else) signs is refused, as Unauthorized whenever the
\* destination is a holding of the vault's asset; and in every step a
\* vault's balance decreases, or the vault disappears, only in a committed
\* take_offer of the vault's own offer, which signs with the seeds of that
\* offer, delivers the whole balance and closes the vault.
C12_CustodianAuthority ==
    [][/\ \A st \in {Accounts, Accounts'} :
            \A v \in {a \in DOMAIN st.token : a[1] \in OfferAddresses} :
                \A p \in Parties, to \in DOMAIN st.token, amount \in Amounts :
                    /\ RawTransfer(st, v, to, amount, p).err # "Ok"
                    /\ to[2] = v[2]
                         => RawTransfer(st, v, to, amount, p).err = "Unauthorized"
       /\ \A v \in Vaults :
            (v \notin DOMAIN token' \/ token'[v].amount < token[v].amount)
            => /\ Took
               /\ last'.key = v[1]
               /\ find_program_address(offer[v[1]].maker, offer[v[1]].id) = v[1]
               /\ last'.amount = token[v].amount
               /\ v \notin DOMAIN token']_vars

\* a take_offer has just emptied and closed a funded vault while another
\* funded vault stays untouched, and its maker's own signature cannot move
\* its balance
C12_Witness ==
    /\ last.op = "take"
    /\ last.amount > 0
    /\ \E v \in Vaults :
          /\ token[v].amount > 0
          /\ \E to \in DOMAIN token :
                /\ to[1] = Wallet(offer[v[1]].maker)
                /\ to[2] = v[2]
                /\ RawTransfer(Accounts, v, to, token[v].amount,
                               offer[v[1]].maker).err = "Unauthorized"

\* ------------------------------------------------------------------ C13
\* the vault of the live offer k in the accounts st
VaultOf(st, k) == get_associated_token_address(k, st.offer[k].token_mint_a)

\* C13: the address of a live offer is derived from its recorded maker and
\* id, its vault is the token account of its asset_a under the authority of
\* that address and holds its deposit, so no two live offers share a vault;
\* and a take_offer that succeeds leaves every other live offer and the
\* balance of its vault as they were.
C13_CustodianUniqueness ==
    /\ \A k \in DOMAIN offer :
          /\ k = find_program_address(offer[k].maker, offer[k].id)
          /\ VaultOf(Accounts, k) \in DOMAIN token
          /\ VaultOf(Accounts, k)[1] = k
          /\ token[VaultOf(Accounts, k)].amount = deposited[k]
    /\ \A k1 \in DOMAIN offer, k2 \in DOMAIN offer :
          (offer[k1].maker # offer[k2].maker \/ offer[k1].id # offer[k2].id)
          => VaultOf(Accounts, k1) # VaultOf(Accounts, k2)
    /\ \A q \in TakeOfferInputs :
          LET r == TakeOfferResult(Accounts, q)
          IN  r.err = "Ok"
              => \A k \in DOMAIN offer \ {q.offer_key} :
                    /\ k \in DOMAIN r.st.offer
                    /\ r.st.offer[k] = offer[k]
                    /\ VaultOf(r.st, k) \in DOMAIN r.st.token
                    /\ r.st.token[VaultOf(r.st, k)].amount
                         = token[VaultOf(Accounts, k)].amount

\* two offers of one maker, with different ids and the same asset_a, are
\* live with different deposits in their two vaults, and a take_offer can
\* settle one of them
C13_Witness ==
    \E k1 \in DOMAIN offer, k2 \in DOMAIN offer :
        /\ offer[k1].maker = offer[k2].maker
        /\ offer[k1].id # offer[k2].id
        /\ offer[k1].token_mint_a = offer[k2].token_mint_a
        /\ deposited[k1] # deposited[k2]
        /\ \E q \in TakeOfferInputs :
              /\ q.offer_key = k1
              /\ TakeOfferResult(Accounts, q).err = "Ok"

\* ------------------------------------------------------------------ C14
\* C14: whatever instruction runs in a reachable state, every live offer
\* keeps its fields (id, maker, token_mint_a, token_mint_b,
\* token_b_wanted_amount): a make_offer, successful or not, leaves every
\* live offer as it is; a take_offer that fails does too; a take_offer that
\* succeeds removes the offer it names together with its vault and leaves
\* every other offer as it is.
C14_OfferImmutability ==
    /\ \A q \in MakeOfferInputs :
          LET post == ProcessInstruction(Accounts, MakeOfferResult(Accounts, q))
          IN  \A k \in DOMAIN offer :
                  k \in DOMAIN post.offer /\ post.offer[k] = offer[k]
    /\ \A q \in TakeOfferInputs :
          LET r == TakeOfferResult(Accounts, q)
              post == ProcessInstruction(Accounts, r)
          IN  \A k \in DOMAIN offer :
                  IF r.err = "Ok" /\ k = q.offer_key
                  THEN /\ k \notin DOMAIN post.offer
                       /\ VaultOf(Accounts, k) \notin DOMAIN post.token
                  ELSE k \in DOMAIN post.offer /\ post.offer[k] = offer[k]

\* two offers are live, recorded as their make_offer calls gave them: a
\* take_offer on the first fails for lack of funds, a take_offer on the
\* second succeeds, and a make_offer of a third offer succeeds
C14_Witness ==
    /\ last.op = "make"
    /\ last.key \in DOMAIN offer
    /\ offer[last.key].token_b_wanted_amount = last.wanted
    /\ offer[last.key].token_mint_b = last.token_mint_b
    /\ \E q \in TakeOfferInputs :
          /\ q.offer_key = last.key
          /\ TakeOfferResult(Accounts, q).err = "InsufficientBalance"
    /\ \E q \in TakeOfferInputs :
          /\ q.offer_key \in DOMAIN offer \ {last.key}
          /\ TakeOfferResult(Accounts, q).err = "Ok"
    /\ \E q \in MakeOfferInputs :
          /\ find_program_address(q.maker, q.id) \notin DOMAIN offer
          /\ MakeOfferResult(Accounts, q).err = "Ok"

\* ------------------------------------------------------------------ C15
\* the sum of f over the set S of its arguments
RECURSIVE Sum(_, _)
Sum(f, S) ==
    IF S = {} THEN 0
    ELSE LET x == CHOOSE y \in S : TRUE IN f[x] + Sum(f, S \ {x})

\* all lamports of the accounts st: in wallets and as the rent of token
\* accounts and offers
TotalLamports(st) ==
    Sum(st.lamports, DOMAIN st.lamports)
    + Sum([a \in DOMAIN st.token |-> st.token[a].lamports], DOMAIN st.token)
    + Sum([k \in DOMAIN st.offer |-> st.offer[k].lamports], DOMAIN st.offer)

\* the rent the taker pays in this step for holdings initialised if needed
HoldingsRent == TokenRent * Cardinality({a \in DOMAIN token' \ DOMAIN token : a[1][1] = "wallet"})

\* C15: a committed make_offer charges the rent of the offer and of the
\* vault to the maker; a committed take_offer removes the offer and the
\* vault, pays the vault's rent to the taker and the offer's rent to the
\* maker, the taker paying only the rent of the holdings the instruction
\* initialises; no other wallet changes and no lamport is lost in any step.
C15_AllocationRefunds ==
    [][/\ TotalLamports(Accounts') = TotalLamports(Accounts)
       /\ Made =>
            /\ offer'[last'.key].lamports = OfferRent
            /\ token'[VaultOf(Accounts', last'.key)].lamports = TokenRent
            /\ \A p \in Parties :
                  lamports'[p] = lamports[p]
                      - (IF p = last'.maker THEN OfferRent + TokenRent ELSE 0)
       /\ Took =>
            /\ last'.key \notin DOMAIN offer'
            /\ VaultOf(Accounts, last'.key) \notin DOMAIN token'
            /\ \A p \in Parties :
                  lamports'[p] = lamports[p]
                      + (IF p = last'.signer
                         THEN token[VaultOf(Accounts, last'.key)].lamports
                              - HoldingsRent
                         ELSE 0)
                      + (IF p = last'.maker
                         THEN offer[last'.key].lamports ELSE 0)]_vars

\* after one make_offer and one take_offer by another party, the maker is
\* short of the vault's rent only and the taker has gained it, less the rent
\* of the holdings the take_offer initialised
C15_Witness ==
    /\ last.op = "take"
    /\ nops = 2
    /\ last.signer # last.maker
    /\ offer = << >>
    /\ lamports[last.maker] = InitLamports - TokenRent
    /\ lamports[last.signer]
         = InitLamports + TokenRent
           - TokenRent * (Cardinality(DOMAIN token) - Cardinality(InitHoldings))
    /\ Cardinality(DOMAIN token) > Cardinality(InitHoldings)

\* ------------------------------------------------------------------ C16
\* the accounts a taker names to settle the offer that q creates
TakeOfMade(taker, q) ==
    [taker |-> taker, maker |-> q.maker, token_mint_a |-> q.token_mint_a,
     token_mint_b |-> q.token_mint_b,
     offer_key |-> find_program_address(q.maker, q.id),
     vault |-> get_associated_token_address(
                   find_program_address(q.maker, q.id), q.token_mint_a)]

\* the maker of q can create the offer: the address is free, the maker's
\* holding of asset_a exists and the maker can pay the two rents
CanCreate(st, q) ==
    /\ find_program_address(q.maker, q.id) \notin DOMAIN st.offer
    /\ get_associated_token_address(Wallet(q.maker), q.token_mint_a)
         \in DOMAIN st.token
    /\ st.lamports[q.maker] >= OfferRent + TokenRent

\* C16: a make_offer with a deposit of 0 that the maker can create succeeds
\* and leaves a live offer whose vault holds 0; every take_offer on it by a
\* taker whose holdings load and who holds the wanted amount of asset_b
\* then succeeds, removes the offer, moves the wanted amount from the taker
\* to the maker and moves no asset_a.
C16_ZeroValueEscrow ==
    \A q \in MakeOfferInputs :
        (q.token_a_offered_amount = 0 /\ CanCreate(Accounts, q))
        => LET r == MakeOfferResult(Accounts, q)
               key == find_program_address(q.maker, q.id)
           IN  /\ r.err = "Ok"
               /\ key \in DOMAIN r.st.offer
               /\ r.st.token[VaultOf(r.st, key)].amount = 0
               /\ r.st.token = [a \in DOMAIN token \cup {VaultOf(r.st, key)} |->
                      IF a \in DOMAIN token THEN token[a]
                      ELSE [amount |-> 0, lamports |-> TokenRent]]
               /\ \A taker \in Parties :
                     LET t == TakeOfMade(taker, q)
                         r2 == TakeOfferResult(r.st, t)
                     IN  (/\ HoldingsLoad(r.st, t)
                          /\ Balance(r.st.token, taker, q.token_mint_b)
                               >= q.token_b_wanted_amount)
                         => /\ r2.err = "Ok"
                            /\ key \notin DOMAIN r2.st.offer
                            /\ \A p \in Parties, m \in Mints :
                                  Balance(r2.st.token, p, m)
                                      - Balance(r.st.token, p, m)
                                    = (IF p = q.maker /\ m = q.token_mint_b
                                       THEN q.token_b_wanted_amount ELSE 0)
                                      - (IF p = taker /\ m = q.token_mint_b
                                         THEN q.token_b_wanted_amount ELSE 0)

\* a take_offer by another party has settled an offer made with a deposit of
\* 0 and a non-zero price, and another zero-deposit offer can be made
C16_Witness ==
    /\ last.op = "take"
    /\ last.amount = 0
    /\ last.wanted > 0
    /\ last.signer # last.maker
    /\ Balance(token, last.maker, last.token_mint_b) >= last.wanted
    /\ \E q \in MakeOfferInputs :
          /\ q.token_a_offered_amount = 0
          /\ q.token_b_wanted_amount > 0
          /\ CanCreate(Accounts, q)
          /\ \E taker \in Parties \ {q.maker} :
                Balance(token, taker, q.token_mint_b) >= q.token_b_wanted_amount

\* ------------------------------------------------------------------ C17
\* the accounts a taker names to settle the live offer k as it is recorded
TakeOfLive(st, taker, k) ==
    [taker |-> taker, maker |-> st.offer[k].maker,
     token_mint_a |-> st.offer[k].token_mint_a,
     token_mint_b |-> st.offer[k].token_mint_b,
     offer_key |-> k, vault |-> VaultOf(st, k)]

\* the maker of the live offer k holds the wanted amount of its asset_b
MakerCanPay(st, k) ==
    /\ get_associated_token_address(Wallet(st.offer[k].maker),
                                    st.offer[k].token_mint_b) \in DOMAIN st.token
    /\ Balance(st.token, st.offer[k].maker, st.offer[k].token_mint_b)
         >= st.offer[k].token_b_wanted_amount

\* C17 as stated: a take_offer by the maker of a live offer, the maker
\* holding the wanted amount of asset_b, succeeds, removes the offer, leaves
\* the maker's asset_b balance unchanged and raises the maker's asset_a
\* balance by the deposit.
C17_Original ==
    \A k \in DOMAIN offer :
        MakerCanPay(Accounts, k)
        => LET r == TakeOfferResult(Accounts, TakeOfLive(Accounts, offer[k].maker, k))
           IN  /\ r.err = "Ok"
               /\ k \notin DOMAIN r.st.offer
               /\ Balance(r.st.token, offer[k].maker, offer[k].token_mint_b)
                    = Balance(token, offer[k].maker, offer[k].token_mint_b)
               /\ Balance(r.st.token, offer[k].maker, offer[k].token_mint_a)
                    = Balance(token, offer[k].maker, offer[k].token_mint_a)
                      + deposited[k]

\* C17 amended: such a take_offer succeeds and removes the offer and its
\* vault; the payment returns to the holding it left, so the only balance
\* that changes is the maker's asset_a balance, which rises by the deposit:
\* the maker's asset_b balance is unchanged when asset_b is not asset_a.
C17_SelfTrade ==
    \A k \in DOMAIN offer :
        MakerCanPay(Accounts, k)
        => LET r == TakeOfferResult(Accounts, TakeOfLive(Accounts, offer[k].maker, k))
           IN  /\ r.err = "Ok"
               /\ k \notin DOMAIN r.st.offer
               /\ VaultOf(Accounts, k) \notin DOMAIN r.st.token
               /\ offer[k].token_mint_b # offer[k].token_mint_a
                    => Balance(r.st.token, offer[k].maker, offer[k].token_mint_b)
                         = Balance(token, offer[k].maker, offer[k].token_mint_b)
               /\ \A p \in Parties, m \in Mints :
                     Balance(r.st.token, p, m) - Balance(token, p, m)
                       = (IF p = offer[k].maker /\ m = offer[k].token_mint_a
                          THEN deposited[k] ELSE 0)

\* the maker of a live offer with a non-zero deposit and a non-zero price
\* in another asset holds the price and can settle the offer itself
C17_Witness ==
    \E k \in DOMAIN offer :
        /\ MakerCanPay(Accounts, k)
        /\ deposited[k] > 0
        /\ offer[k].token_b_wanted_amount > 0
        /\ offer[k].token_mint_a # offer[k].token_mint_b
        /\ TakeOfferResult(Accounts,
                           TakeOfLive(Accounts, offer[k].maker, k)).err = "Ok"

\* ------------------------------------------------------------------ C18
\* the units of the asset m in all token accounts of S, in the accounts st
Supply(st, S, m) ==
    Sum([a \in S |-> st.token[a].amount], {a \in S : a[2] = m})

\* the units of the asset m in the initial holdings
InitialSupply(m) ==
    InitTokens * Cardinality({h \in InitHoldings \ EmptyHoldings : h[2] = m})

\* C18: in every reachable state, for each asset the balances of all
\* holdings and vaults sum to the initial total, and the balances of the
\* vaults of that asset sum to the deposits of the live offers of that
\* asset.
C18_AssetConservation ==
    \A m \in Mints :
        /\ Supply(Accounts, DOMAIN token, m) = InitialSupply(m)
        /\ Supply(Accounts, Vaults, m)
             = Sum(deposited, {k \in DOMAIN offer : offer[k].token_mint_a = m})

\* after MaxOps instructions, one of them a take_offer, a vault holds a
\* non-zero deposit and a holding that a take_offer initialised holds a
\* non-zero balance
C18_Witness ==
    /\ nops = MaxOps
    /\ everSettled # {}
    /\ \E v \in Vaults : token[v].amount > 0
    /\ \E a \in DOMAIN token :
          /\ a[1][1] = "wallet"
          /\ <<a[1][2], a[2]>> \notin InitHoldings
          /\ token[a].amount > 0

\* ------------------------------------------------------------------ C19
\* taker can settle the live offer k: its holdings load (its asset_b holding
\* exists and it can fund the holdings initialised if needed) and it holds
\* the wanted amount of asset_b
AbleTaker(st, taker, k) ==
    /\ HoldingsLoad(st, TakeOfLive(st, taker, k))
    /\ Balance(st.token, taker, st.offer[k].token_mint_b)
         >= st.offer[k].token_b_wanted_amount

\* the live offer k has a taker that can settle it
Settleable(k) ==
    /\ k \in DOMAIN offer
    /\ \E taker \in Parties : AbleTaker(Accounts, taker, k)

\* a take_offer on the live offer k, naming the accounts it records; the
\* number of settlements is bounded by the number of offers made
SettleTx(taker, k) ==
    /\ k \in DOMAIN offer
    /\ \E r \in {TakeOfferResult(Accounts, TakeOfLive(Accounts, taker, k))} :
          /\ r.err = "Ok"
          /\ Committed(r)
    /\ TakenHistory(taker, offer[k].maker, offer[k].token_mint_a,
                    offer[k].token_mint_b, k)
    /\ UNCHANGED race

\* the number of instructions after which no further offer is made
MaxLiveOps == 2

LiveNext ==
    \/ /\ nops < MaxLiveOps
       /\ \E maker \in Makers, id \in Ids, a \in Mints, b \in Mints,
             amount \in Amounts, wanted \in Amounts :
             MakeOfferTx(maker, id, a, b, amount, wanted)
    \/ \E taker \in Parties, k \in OfferAddresses : SettleTx(taker, k)

\* takers keep submitting take_offer on an offer they can settle
LiveSpec ==
    /\ Init
    /\ [][LiveNext]_vars
    /\ \A k \in OfferAddresses : WF_vars(\E taker \in Parties : SettleTx(taker, k))

\* C19: in every reachable state, a take_offer on a live offer that names
\* the recorded accounts, by a taker whose holdings load and who holds the
\* wanted amount of asset_b, succeeds and removes the offer, whatever
\* happened before; hence, takers being fair, an offer that can be settled
\* does not stay both live and settleable for ever.
C19_NoStuckEscrow ==
    /\ [](\A k \in DOMAIN offer : \A taker \in Parties :
            AbleTaker(Accounts, taker, k)
            => LET r == TakeOfferResult(Accounts, TakeOfLive(Accounts, taker, k))
               IN  r.err = "Ok" /\ k \notin DOMAIN r.st.offer)
    /\ \A k \in OfferAddresses :
          Settleable(k) ~> (k \notin DOMAIN offer \/ ~Settleable(k))

\* an offer with a non-zero deposit and price has just been settled by
\* another party while a second offer is live, has an able taker, and a
\* take_offer on it by some other taker is refused for lack of funds
C19_Witness ==
    /\ last.op = "take"
    /\ last.amount > 0
    /\ last.wanted > 0
    /\ last.signer # last.maker
    /\ \E k \in DOMAIN offer :
          /\ Settleable(k)
          /\ \E taker \in Parties :
                TakeOfferResult(Accounts, TakeOfLive(Accounts, taker, k)).err
                  = "InsufficientBalance"

====
